---- MODULE Spec2Model ----
(***************************************************************************)
(* ZipLens front end: the hierarchical selection engine of FileTree.tsx    *)
(* (buildTree, areAllChildrenSelected, updateParentStates, toggleFile,     *)
(* toggleFolder) together with the selection handlers of App.tsx.          *)
(*                                                                         *)
(* A JavaScript string is modelled as a sequence of one-character strings, *)
(* so that "a/b", "a\b" and "a/b/" are three different values and the      *)
(* normalisation done by buildTree is computed, not assumed.               *)
(***************************************************************************)
EXTENDS Integers, Sequences, FiniteSets, TLC

\* ------------------------------------------------------------------ bounds
\* Total number of path segments in one listing
MaxSegments == 5

\* Segment names used in listings: one alphabetic, one numeric.
Names == {<<"a">>, <<"1">>}

\* ------------------------------------------------------- string primitives
Includes(s, x) == \E i \in DOMAIN s : s[i] = x

IndexOf(s, x) == IF Includes(s, x)
                 THEN CHOOSE i \in DOMAIN s : s[i] = x /\ \A j \in 1..(i-1) : s[j] # x
                 ELSE 0

RemoveAt(s, i) == SubSeq(s, 1, i-1) \o SubSeq(s, i+1, Len(s))

SeqToSet(s) == {s[i] : i \in DOMAIN s}

\* filePath.replace(/\\/g, "/")
ReplaceBackslash(s) == [i \in 1..Len(s) |-> IF s[i] = "\\" THEN "/" ELSE s[i]]

\* String.prototype.split("/"): empty fields are kept
RECURSIVE SplitAcc(_, _, _, _)
SplitAcc(s, i, cur, acc) ==
    IF i > Len(s) THEN Append(acc, cur)
    ELSE IF s[i] = "/" THEN SplitAcc(s, i+1, <<>>, Append(acc, cur))
    ELSE SplitAcc(s, i+1, Append(cur, s[i]), acc)

Split(s) == SplitAcc(s, 1, <<>>, <<>>)

\* Array.prototype.filter(Boolean) on strings: drops the empty ones
FilterBoolean(ss) == SelectSeq(ss, LAMBDA x : x # <<>>)

\* String.prototype.trim() yields "" exactly for all-whitespace strings
Whitespace == {" ", "\t", "\n"}
IsBlank(s) == \A i \in DOMAIN s : s[i] \in Whitespace

\* (variant: backslashes are left alone)
PartsNoReplace(filePath) == FilterBoolean(Split(filePath))

\* filePath.replace(/\\/g, "/").split("/").filter(Boolean)
Parts(filePath) == FilterBoolean(Split(ReplaceBackslash(filePath)))

\* ------------------------------------------------------------- buildTree
\* The nested record `root` is kept flat: one entry per __node, in creation
\* order, keyed by the chain of property names that leads to it.
\*   key      : sequence of parts (position in the nested maps)
\*   name     : __node.name
\*   path     : __node.path
\*   children : TRUE iff __node.children is an object (not undefined)
\* (variant: the level is never found to hold the part)
HasKeyNever(entries, key) == FALSE

HasKey(entries, key) == \E j \in DOMAIN entries : entries[j].key = key
EntryOf(entries, key) == entries[CHOOSE j \in DOMAIN entries : entries[j].key = key]

\* parts.forEach((part, i) => ...): `attached` is FALSE once `current` is the
\* throw-away object produced by `children ?? {}`.
\* (variant: a node's path is its own name)
RECURSIVE WalkPartsNameOnly(_, _, _, _, _)
WalkPartsNameOnly(entries, parts, i, attached, currentPath) ==
    IF i > Len(parts) THEN entries
    ELSE LET part == parts[i]
             key  == SubSeq(parts, 1, i)
         IN IF ~attached
            THEN WalkPartsNameOnly(entries, parts, i+1, FALSE, part)
            ELSE LET es == IF HasKey(entries, key) THEN entries
                           ELSE Append(entries, [key |-> key, name |-> part, path |-> part,
                                                 children |-> (i # Len(parts))])
                 IN WalkPartsNameOnly(es, parts, i+1, EntryOf(es, key).children, part)

RECURSIVE WalkParts(_, _, _, _, _)
WalkParts(entries, parts, i, attached, currentPath) ==
    IF i > Len(parts) THEN entries
    ELSE LET part == parts[i]
             cp   == IF currentPath # <<>> THEN currentPath \o <<"/">> \o part ELSE part
             key  == SubSeq(parts, 1, i)
         IN IF ~attached
            THEN WalkParts(entries, parts, i+1, FALSE, cp)
            ELSE LET es == IF HasKey(entries, key) THEN entries
                           ELSE Append(entries, [key |-> key, name |-> part, path |-> cp,
                                                 children |-> (i # Len(parts))])
                 IN WalkParts(es, parts, i+1, EntryOf(es, key).children, cp)

RECURSIVE BuildEntries(_, _, _)
BuildEntries(entries, fs, n) ==
    IF n > Len(fs) THEN entries
    ELSE IF fs[n] = <<>> THEN BuildEntries(entries, fs, n+1)
    ELSE BuildEntries(WalkParts(entries, Parts(fs[n]), 1, TRUE, <<>>), fs, n+1)

\* Object.values order: array-index keys ascending, then the others in
\* insertion order.
Digits == {"0", "1", "2", "3", "4", "5", "6", "7", "8", "9"}
DigitVal == ("0" :> 0) @@ ("1" :> 1) @@ ("2" :> 2) @@ ("3" :> 3) @@ ("4" :> 4) @@
            ("5" :> 5) @@ ("6" :> 6) @@ ("7" :> 7) @@ ("8" :> 8) @@ ("9" :> 9)
IsArrayIndex(name) == /\ name # <<>>
                      /\ \A i \in DOMAIN name : name[i] \in Digits
                      /\ (Len(name) = 1 \/ name[1] # "0")
                      /\ Len(name) <= 9
RECURSIVE NumVal(_)
NumVal(name) == IF name = <<>> THEN 0
                ELSE 10 * NumVal(SubSeq(name, 1, Len(name)-1)) + DigitVal[name[Len(name)]]

RECURSIVE SortByIndex(_)
SortByIndex(es) ==
    IF es = <<>> THEN <<>>
    ELSE LET m == CHOOSE i \in DOMAIN es :
                      \A j \in DOMAIN es : NumVal(es[i].name) <= NumVal(es[j].name)
         IN <<es[m]>> \o SortByIndex(RemoveAt(es, m))

ObjectValues(entries, parent) ==
    LET own == SelectSeq(entries, LAMBDA e : /\ Len(e.key) = Len(parent) + 1
                                             /\ SubSeq(e.key, 1, Len(parent)) = parent)
        idx == SelectSeq(own, LAMBDA e : IsArrayIndex(e.name))
        str == SelectSeq(own, LAMBDA e : ~IsArrayIndex(e.name))
    IN SortByIndex(idx) \o str

KeysOf(es) == [i \in DOMAIN es |-> es[i].key]

\* convert(): a FileNode gets `children` only when the entry has a non-empty
\* children object.  children = <<>> stands for `undefined`.
Convert(entries) ==
    [roots |-> KeysOf(ObjectValues(entries, <<>>)),
     node  |-> [k \in {entries[j].key : j \in DOMAIN entries} |->
                  LET e    == EntryOf(entries, k)
                      kids == KeysOf(ObjectValues(entries, k))
                  IN [name |-> e.name, path |-> e.path,
                      children |-> IF e.children /\ kids # <<>> THEN kids ELSE <<>>]]]

buildTree(fs) == Convert(BuildEntries(<<>>, fs, 1))

\* Property names every plain object inherits from Object.prototype.  For
\* such a part `current[part]` is truthy although no entry was stored, so
\* `current[part].__node` is undefined and reading `.children` of it throws
\* a TypeError, whether `current` is attached or not.
Constructor == <<"c", "o", "n", "s", "t", "r", "u", "c", "t", "o", "r">>
ObjectPrototypeKeys ==
    {<<"c", "o", "n", "s", "t", "r", "u", "c", "t", "o", "r">>,
     <<"_", "_", "d", "e", "f", "i", "n", "e", "G", "e", "t", "t", "e", "r", "_", "_">>,
     <<"_", "_", "d", "e", "f", "i", "n", "e", "S", "e", "t", "t", "e", "r", "_", "_">>,
     <<"h", "a", "s", "O", "w", "n", "P", "r", "o", "p", "e", "r", "t", "y">>,
     <<"_", "_", "l", "o", "o", "k", "u", "p", "G", "e", "t", "t", "e", "r", "_", "_">>,
     <<"_", "_", "l", "o", "o", "k", "u", "p", "S", "e", "t", "t", "e", "r", "_", "_">>,
     <<"i", "s", "P", "r", "o", "t", "o", "t", "y", "p", "e", "O", "f">>,
     <<"p", "r", "o", "p", "e", "r", "t", "y", "I", "s", "E", "n", "u", "m", "e", "r", "a", "b", "l", "e">>,
     <<"t", "o", "S", "t", "r", "i", "n", "g">>,
     <<"v", "a", "l", "u", "e", "O", "f">>,
     <<"_", "_", "p", "r", "o", "t", "o", "_", "_">>,
     <<"t", "o", "L", "o", "c", "a", "l", "e", "S", "t", "r", "i", "n", "g">>}

\* buildTree(fs) ends by a TypeError instead of returning; buildTree above is
\* the value returned otherwise.
buildTreeThrows(fs) ==
    \E n \in DOMAIN fs :
        /\ fs[n] # <<>>
        /\ SeqToSet(Parts(fs[n])) \cap ObjectPrototypeKeys # {}

\* useEffect of FileTree: files.filter(f => f.trim() !== "") then buildTree
cleanedOf(paths) == SelectSeq(paths, LAMBDA f : ~IsBlank(f))
build(paths) == buildTree(cleanedOf(paths))
buildThrows(paths) == buildTreeThrows(cleanedOf(paths))

\* useState<FileNode[]>([]): the tree of a FileTree that has no files
EmptyTree == buildTree(<<>>)

NodeKeys(t) == DOMAIN t.node
IsFolder(t, k) == t.node[k].children # <<>>
FolderKeys(t) == {k \in NodeKeys(t) : IsFolder(t, k)}
LeafKeys(t) == {k \in NodeKeys(t) : ~IsFolder(t, k)}

\* collectFolders(built): the paths of all nodes that have children
\* (variant: the path of every node is collected, leaves too)
RECURSIVE CollectNodes(_, _, _)
CollectNodes(t, ks, i) ==
    IF i > Len(ks) THEN {}
    ELSE {t.node[ks[i]].path} \cup CollectNodes(t, t.node[ks[i]].children, 1)
         \cup CollectNodes(t, ks, i+1)

RECURSIVE CollectFolders(_, _, _)
CollectFolders(t, ks, i) ==
    IF i > Len(ks) THEN {}
    ELSE (IF IsFolder(t, ks[i])
          THEN {t.node[ks[i]].path} \cup CollectFolders(t, t.node[ks[i]].children, 1)
          ELSE {})
         \cup CollectFolders(t, ks, i+1)

\* ------------------------------------------------------ selection engine
\* (variant: the paths of the direct children, without the recursion)
getDirectChildren(t, k) ==
    IF t.node[k].children = <<>> THEN <<t.node[k].path>>
    ELSE [i \in DOMAIN t.node[k].children |-> t.node[t.node[k].children[i]].path]

\* getAllDescendantFiles(node): leaf paths of the subtree, in tree order
RECURSIVE getAllDescendantFiles(_, _)
RECURSIVE FlatMapDescendants(_, _, _)
FlatMapDescendants(t, ks, i) ==
    IF i > Len(ks) THEN <<>>
    ELSE getAllDescendantFiles(t, ks[i]) \o FlatMapDescendants(t, ks, i+1)
getAllDescendantFiles(t, k) ==
    IF t.node[k].children = <<>> THEN <<t.node[k].path>>
    ELSE FlatMapDescendants(t, t.node[k].children, 1)

\* (variant: `some` in place of `every`)
areAllChildrenSelectedSome(t, sel, k) ==
    IF t.node[k].children = <<>> THEN Includes(sel, t.node[k].path)
    ELSE LET descendantFiles == getAllDescendantFiles(t, k)
         IN \E i \in DOMAIN descendantFiles : Includes(sel, descendantFiles[i])

\* areAllChildrenSelected(node), which is also isChecked of renderTree
areAllChildrenSelected(t, sel, k) ==
    IF t.node[k].children = <<>> THEN Includes(sel, t.node[k].path)
    ELSE LET descendantFiles == getAllDescendantFiles(t, k)
         IN \A i \in DOMAIN descendantFiles : Includes(sel, descendantFiles[i])

\* processNode(node): returns the node's state and the array as mutated so far
RECURSIVE processNode(_, _, _)
RECURSIVE ProcessChildren(_, _, _, _, _)
ProcessChildren(t, ks, i, upd, all) ==
    IF i > Len(ks) THEN [state |-> all, sel |-> upd]
    ELSE LET r == processNode(t, ks[i], upd)
         IN ProcessChildren(t, ks, i+1, r.sel, all /\ r.state)
processNode(t, k, upd) ==
    IF t.node[k].children = <<>>
    THEN [state |-> Includes(upd, t.node[k].path), sel |-> upd]
    ELSE LET r == ProcessChildren(t, t.node[k].children, 1, upd, TRUE)
             p == t.node[k].path
         IN IF r.state
            THEN [state |-> TRUE,
                  sel   |-> IF Includes(r.sel, p) THEN r.sel ELSE Append(r.sel, p)]
            ELSE [state |-> FALSE,
                  sel   |-> IF IndexOf(r.sel, p) > 0 THEN RemoveAt(r.sel, IndexOf(r.sel, p))
                            ELSE r.sel]

\* updateParentStates(newSelected): tree.forEach(rootNode => processNode(rootNode))
updateParentStates(t, newSelected) ==
    ProcessChildren(t, t.roots, 1, newSelected, TRUE).sel

\* (variant: unchecking removes the first occurrence of the path only)
toggleFileSplice(t, sel, path) ==
    LET newSelected == IF Includes(sel, path)
                       THEN RemoveAt(sel, IndexOf(sel, path))
                       ELSE Append(sel, path)
    IN updateParentStates(t, newSelected)

\* (variant: the added path replaces the array instead of extending it)
toggleFileReplace(t, sel, path) ==
    LET newSelected == IF Includes(sel, path)
                       THEN SelectSeq(sel, LAMBDA f : f # path)
                       ELSE <<path>>
    IN updateParentStates(t, newSelected)

\* toggleFile(path): the array handed to setSelected
toggleFile(t, sel, path) ==
    LET newSelected == IF Includes(sel, path)
                       THEN SelectSeq(sel, LAMBDA f : f # path)
                       ELSE Append(sel, path)
    IN updateParentStates(t, newSelected)

\* [...new Set(xs)]: first occurrences, in order
RECURSIVE Dedupe(_)
Dedupe(xs) ==
    IF xs = <<>> THEN <<>>
    ELSE LET r == Dedupe(SubSeq(xs, 1, Len(xs)-1))
         IN IF Includes(r, xs[Len(xs)]) THEN r ELSE Append(r, xs[Len(xs)])

\* (variant: unchecking a folder empties the selection)
toggleFolderClear(t, sel, k) ==
    IF t.node[k].children = <<>> THEN sel
    ELSE LET descendantFiles == getAllDescendantFiles(t, k)
         IN IF areAllChildrenSelected(t, sel, k)
            THEN <<>>
            ELSE Dedupe(sel \o descendantFiles)

\* (variant: checking a folder also stores the folder's own path)
toggleFolderOwnPath(t, sel, k) ==
    IF t.node[k].children = <<>> THEN sel
    ELSE LET descendantFiles == getAllDescendantFiles(t, k)
         IN IF areAllChildrenSelected(t, sel, k)
            THEN SelectSeq(sel, LAMBDA f : ~Includes(descendantFiles, f))
            ELSE Dedupe(sel \o descendantFiles \o <<t.node[k].path>>)

\* toggleFolder(node): the array handed to setSelected (sel itself when the
\* handler returns early)
toggleFolder(t, sel, k) ==
    IF t.node[k].children = <<>> THEN sel
    ELSE LET descendantFiles == getAllDescendantFiles(t, k)
         IN IF areAllChildrenSelected(t, sel, k)
            THEN SelectSeq(sel, LAMBDA f : ~Includes(descendantFiles, f))
            ELSE Dedupe(sel \o descendantFiles)

\* ------------------------------------------------------------- listings
\* The listings the service may return: sequences of paths whose chains of
\* names hold at most MaxSegments names in total.  Paths are spelt with "/";
\* at most one path of a listing is spelt irregularly, either as a directory
\* entry (trailing "/") or with "\\" as the separator.
RECURSIVE JoinWith(_, _)
JoinWith(segs, sep) ==
    IF Len(segs) = 1 THEN segs[1]
    ELSE JoinWith(SubSeq(segs, 1, Len(segs)-1), sep) \o <<sep>> \o segs[Len(segs)]

Spell(chain, kind) ==
    CASE kind = "posix" -> JoinWith(chain, "/")
      [] kind = "dir"   -> JoinWith(chain, "/") \o <<"/">>
      [] kind = "win"   -> JoinWith(chain, "\\")

RECURSIVE ChainSeqs(_)
ChainSeqs(budget) ==
    {<<>>} \cup UNION {{<<c>> \o r : c \in [1..d -> Names], r \in ChainSeqs(budget - d)}
                       : d \in 1..budget}

Listings ==
    {[i \in DOMAIN cs |-> Spell(cs[i], IF i = j THEN kind ELSE "posix")]
        : cs \in ChainSeqs(MaxSegments), j \in 0..MaxSegments, kind \in {"dir", "win"}}

\* ----------------------------------------------------------------- state
VARIABLES files, selected, tree, expanded, last, run, heap,
          loading, sessionId, requests
vars == <<files, selected, tree, expanded, last, run, heap,
          loading, sessionId, requests>>

\* files, selected : useState<string[]>([]) of App
\* tree, expanded  : useState of FileTree
\* last            : the handler that ran last, the node it was given and
\*                   whether `selected` was empty when it started; for
\*                   deselectAll also the handler that ran before it (history)
\* run             : leaves toggled once each since `selected` was last empty
\*                   (history); active is FALSE once anything else happened
\* heap            : the arrays and Sets behind files, selected and expanded
\*                   as objects with identity (followed under HeapSpec only):
\*                   cells[r] is the content of object r; files, selected,
\*                   expanded are the objects the state hooks hold; prior
\*                   and before are the held objects and all contents at the
\*                   start of the last handler (history); calls counts the
\*                   handlers run since the upload
\* loading, sessionId : useState(false), useState<string | null>(null) of App;
\*                   a session id is the number of the list-files request
\*                   that brought it, NoSession stands for null
\* requests        : the fetches started so far, in order, each with what its
\*                   handler captured and whether it has completed (followed
\*                   under AppSpec; elsewhere a fetch completes within the
\*                   step that starts it)
NoNode == <<>>
NoSession == 0
NewSession == Len(requests) + 1
InitHeap ==
    [cells |-> <<<<>>, <<>>, {}>>, files |-> 1, selected |-> 2, expanded |-> 3,
     prior |-> [selected |-> 2, expanded |-> 3], before |-> <<<<>>, <<>>, {}>>,
     calls |-> 0]

Init ==
    /\ files = <<>>
    /\ selected = <<>>
    /\ tree = EmptyTree
    /\ expanded = {}
    /\ last = [op |-> "init", node |-> NoNode, empty |-> TRUE, after |-> "-"]
    /\ run = [active |-> TRUE, toggled |-> {}]
    /\ heap = InitHeap
    /\ loading = FALSE
    /\ sessionId = NoSession
    /\ requests = <<>>

hasFiles == Len(files) > 0

RunAfter(op, k, sel) ==
    IF sel = <<>> THEN [active |-> TRUE, toggled |-> {}]
    ELSE IF op = "toggleFile" /\ run.active /\ k \notin run.toggled
    THEN [active |-> TRUE, toggled |-> run.toggled \cup {k}]
    ELSE [active |-> FALSE, toggled |-> {}]

\* handleUpload, success path, with the effect of FileTree that follows the
\* change of `files`.  The upload zone is rendered only while !hasFiles; a
\* response that arrives later stores the same values as one that arrives
\* after handleBack.
HandleUpload(listing) ==
    /\ ~hasFiles
    /\ LET all     == FilterBoolean(listing)
           cleaned == SelectSeq(all, LAMBDA f : ~IsBlank(f))
           built   == IF all = <<>> THEN EmptyTree ELSE buildTree(cleaned)
       IN /\ files' = all
          /\ selected' = all
          /\ tree' = built
          /\ expanded' = CollectFolders(built, built.roots, 1)
          /\ last' = [op |-> "upload", node |-> NoNode, empty |-> (selected = <<>>), after |-> "-"]
          /\ run' = RunAfter("upload", NoNode, all)
          /\ sessionId' = NewSession
          /\ UNCHANGED <<heap, loading, requests>>

\* onChange of a leaf checkbox: toggleFile(node.path)
ToggleFile(k) ==
    /\ hasFiles
    /\ k \in LeafKeys(tree)
    /\ selected' = toggleFile(tree, selected, tree.node[k].path)
    /\ last' = [op |-> "toggleFile", node |-> k, empty |-> (selected = <<>>), after |-> "-"]
    /\ run' = RunAfter("toggleFile", k, selected')
    /\ UNCHANGED <<files, tree, expanded, heap, loading, sessionId, requests>>

\* onChange of a folder checkbox: toggleFolder(node)
ToggleFolder(k) ==
    /\ hasFiles
    /\ k \in FolderKeys(tree)
    /\ selected' = toggleFolder(tree, selected, k)
    /\ last' = [op |-> "toggleFolder", node |-> k, empty |-> (selected = <<>>), after |-> "-"]
    /\ run' = RunAfter("toggleFolder", k, selected')
    /\ UNCHANGED <<files, tree, expanded, heap, loading, sessionId, requests>>

\* handleSelectAll / handleDeselectAll: the value handed to setSelected
SelectAllValue == files
DeselectAllValueFiles == files
DeselectAllValue == <<>>

HandleSelectAll ==
    /\ hasFiles
    /\ selected' = SelectAllValue
    /\ last' = [op |-> "selectAll", node |-> NoNode, empty |-> (selected = <<>>), after |-> "-"]
    /\ run' = RunAfter("selectAll", NoNode, selected')
    /\ UNCHANGED <<files, tree, expanded, heap, loading, sessionId, requests>>

HandleDeselectAll ==
    /\ hasFiles
    /\ selected' = DeselectAllValue
    /\ last' = [op |-> "deselectAll", node |-> NoNode, empty |-> (selected = <<>>), after |-> last.op]
    /\ run' = RunAfter("deselectAll", NoNode, selected')
    /\ UNCHANGED <<files, tree, expanded, heap, loading, sessionId, requests>>

\* handleBack; the FileTree is unmounted with the panel
HandleBack ==
    /\ hasFiles
    /\ files' = <<>>
    /\ selected' = <<>>
    /\ tree' = EmptyTree
    /\ expanded' = {}
    /\ last' = [op |-> "back", node |-> NoNode, empty |-> (selected = <<>>), after |-> "-"]
    /\ run' = RunAfter("back", NoNode, <<>>)
    /\ sessionId' = NoSession
    /\ UNCHANGED <<heap, loading, requests>>

Upload == ~hasFiles /\ \E listing \in Listings : HandleUpload(listing)
ToggleLeafStep == \E k \in NodeKeys(tree) : ToggleFile(k)
ToggleFolderStep == \E k \in NodeKeys(tree) : ToggleFolder(k)

Next ==
    \/ Upload
    \/ ToggleLeafStep
    \/ ToggleFolderStep
    \/ HandleSelectAll
    \/ HandleDeselectAll
    \/ HandleBack

Spec == Init /\ [][Next]_vars

\* ------------------------------------------------ the engine called directly
\* toggleFile as an entry point of its own: one call on a freshly loaded
\* listing, with any path, in the tree or not.  The call and the array it
\* started from are recorded in `last`.
CallPaths == {Spell(c, kind) : c \in [1..1 -> Names] \cup [1..2 -> Names],
                               kind \in {"posix", "dir", "win"}}

ToggleLeaf(path) ==
    /\ hasFiles
    /\ last.op = "upload"
    /\ selected' = toggleFile(tree, selected, path)
    /\ last' = [op |-> "toggleLeaf", node |-> NoNode, empty |-> (selected = <<>>),
                after |-> "-", path |-> path, prev |-> selected]
    /\ run' = [active |-> FALSE, toggled |-> {}]
    /\ UNCHANGED <<files, tree, expanded, heap, loading, sessionId, requests>>

ToggleLeafCall == \E path \in CallPaths : ToggleLeaf(path)

EngineNext ==
    \/ Upload
    \/ ToggleLeafCall

EngineSpec == Init /\ [][EngineNext]_vars

\* ------------------------------------------------- the tree builder alone
\* The effect of FileTree run once on a `files` prop.  The props tried hold
\* chains of at most MaxSegments - 1 names in total, the names of Names and
\* "constructor"; at most one path is spelt irregularly (directory entry,
\* backslashes, or a leading separator with doubled mixed separators), and
\* one blank entry ("" or " ") may stand at the front or at the back.
BuildNames == Names \cup {Constructor}

RECURSIVE BuildChainSeqs(_)
BuildChainSeqs(budget) ==
    {<<>>} \cup UNION {{<<c>> \o r : c \in [1..d -> BuildNames], r \in BuildChainSeqs(budget - d)}
                       : d \in 1..budget}

RECURSIVE JoinMixed(_)
JoinMixed(segs) ==
    IF Len(segs) = 1 THEN <<"/">> \o segs[1]
    ELSE JoinMixed(SubSeq(segs, 1, Len(segs)-1)) \o <<"/", "\\">> \o segs[Len(segs)]

SpellAny(chain, kind) ==
    IF kind = "mixed" THEN JoinMixed(chain) ELSE Spell(chain, kind)

WithBlank(paths, blank, front) ==
    CASE blank = "none"  -> paths
      [] blank = "empty" -> IF front THEN <<<<>>>> \o paths ELSE Append(paths, <<>>)
      [] blank = "space" -> IF front THEN <<<<" ">>>> \o paths ELSE Append(paths, <<" ">>)

BuildListings ==
    {WithBlank([i \in DOMAIN cs |-> SpellAny(cs[i], IF i = j THEN kind ELSE "posix")],
               blank, front)
        : cs \in BuildChainSeqs(MaxSegments - 1), j \in 0..MaxSegments,
          kind \in {"dir", "win", "mixed"},
          blank \in {"none", "empty", "space"}, front \in BOOLEAN}

\* When buildTree throws, setTree and setExpanded are not reached.
BuildStep(paths) ==
    LET threw == buildThrows(paths)
        built == build(paths)
    IN  /\ files' = paths
        /\ tree' = IF threw THEN tree ELSE built
        /\ expanded' = IF threw THEN expanded ELSE CollectFolders(built, built.roots, 1)
        /\ last' = [op |-> "build", node |-> NoNode, empty |-> TRUE, after |-> "-",
                    threw |-> threw]
        /\ UNCHANGED <<selected, run, heap, loading, sessionId, requests>>

\* The effect runs once, on the mounted and still empty component.
BuildNext == last.op = "init" /\ \E paths \in BuildListings : BuildStep(paths)

BuildSpec == Init /\ [][BuildNext]_vars

\* ------------------------------------------- arrays and Sets as objects
\* The handlers once more, with the identity of the arrays and Sets they
\* read and make.  An operator takes the contents of all objects and the
\* object it is applied to, and returns the contents after it together with
\* the object it hands to the setter.
MaxCalls == 3

\* an array or Set that did not exist before: a literal, a spread, filter,
\* new Set(...)
Alloc(cells, v) == [cells |-> Append(cells, v), ref |-> Len(cells) + 1]

\* updateParentStates: updatedSelected = [...newSelected], then push and
\* splice on updatedSelected
updateParentStatesH(t, cells, newSelected) ==
    LET a == Alloc(cells, cells[newSelected])
    IN [cells |-> [a.cells EXCEPT ![a.ref] = updateParentStates(t, @)], ref |-> a.ref]

\* (variant: checking a leaf pushes its path onto `selected` itself)
toggleFileHPush(t, cells, sel, path) ==
    IF Includes(cells[sel], path)
    THEN LET a == Alloc(cells, SelectSeq(cells[sel], LAMBDA f : f # path))
         IN updateParentStatesH(t, a.cells, a.ref)
    ELSE updateParentStatesH(t, [cells EXCEPT ![sel] = Append(@, path)], sel)

toggleFileH(t, cells, sel, path) ==
    LET a == IF Includes(cells[sel], path)
             THEN Alloc(cells, SelectSeq(cells[sel], LAMBDA f : f # path))
             ELSE Alloc(cells, Append(cells[sel], path))
    IN updateParentStatesH(t, a.cells, a.ref)

toggleFolderH(t, cells, sel, k) ==
    IF t.node[k].children = <<>> THEN [cells |-> cells, ref |-> sel]
    ELSE LET descendantFiles == getAllDescendantFiles(t, k)
         IN IF areAllChildrenSelected(t, cells[sel], k)
            THEN Alloc(cells, SelectSeq(cells[sel], LAMBDA f : ~Includes(descendantFiles, f)))
            ELSE Alloc(cells, Dedupe(cells[sel] \o descendantFiles))

\* (variant: collapsing a folder also drops every path below it)
toggleExpandHCascade(cells, exp, path) ==
    LET a == Alloc(cells, cells[exp])
    IN [cells |-> [a.cells EXCEPT ![a.ref] =
                      IF path \in @
                      THEN {q \in @ : Len(q) <= Len(path)
                                         \/ SubSeq(q, 1, Len(path) + 1) # path \o <<"/">>}
                              \ {path}
                      ELSE @ \cup {path}],
        ref |-> a.ref]

\* toggleExpand: newExpanded = new Set(expanded), then delete or add on it
toggleExpandH(cells, exp, path) ==
    LET a == Alloc(cells, cells[exp])
    IN [cells |-> [a.cells EXCEPT ![a.ref] = IF path \in @ THEN @ \ {path}
                                                         ELSE @ \cup {path}],
        ref |-> a.ref]

\* The listings followed: non-empty ones (an empty one leaves the upload zone
\* in place), regularly spelt, of at most MaxSegments - 2 names
HeapListings ==
    {[i \in DOMAIN cs |-> Spell(cs[i], "posix")] : cs \in ChainSeqs(MaxSegments - 2) \ {<<>>}}

HeapAfter(cells, sel, exp) ==
    [heap EXCEPT !.cells = cells, !.selected = sel, !.expanded = exp,
                 !.prior = [selected |-> heap.selected, expanded |-> heap.expanded],
                 !.before = heap.cells, !.calls = @ + 1]

\* handleUpload: `all` is handed to setFiles and to setSelected; the effect
\* of FileTree hands a new Set to setExpanded
HeapUpload(listing) ==
    LET all     == FilterBoolean(listing)
        cleaned == SelectSeq(all, LAMBDA f : ~IsBlank(f))
        built   == IF all = <<>> THEN EmptyTree ELSE buildTree(cleaned)
        a       == Alloc(heap.cells, all)
        b       == Alloc(a.cells, CollectFolders(built, built.roots, 1))
    IN /\ files' = all
       /\ selected' = all
       /\ tree' = built
       /\ expanded' = b.cells[b.ref]
       /\ last' = [op |-> "upload", node |-> NoNode, empty |-> (selected = <<>>), after |-> "-"]
       /\ heap' = [cells |-> b.cells, files |-> a.ref, selected |-> a.ref, expanded |-> b.ref,
                   prior |-> [selected |-> heap.selected, expanded |-> heap.expanded],
                   before |-> heap.cells, calls |-> 0]
       /\ sessionId' = NewSession
       /\ UNCHANGED <<run, loading, requests>>

\* (variant: checking or unchecking a leaf also collapses every folder)
HeapToggleFileCollapse(k) ==
    /\ hasFiles /\ heap.calls < MaxCalls
    /\ k \in LeafKeys(tree)
    /\ LET r == toggleFileH(tree, heap.cells, heap.selected, tree.node[k].path)
           e == Alloc(r.cells, {})
       IN /\ selected' = r.cells[r.ref]
          /\ expanded' = {}
          /\ heap' = HeapAfter(e.cells, r.ref, e.ref)
    /\ last' = [op |-> "toggleFile", node |-> k, empty |-> (selected = <<>>), after |-> "-"]
    /\ UNCHANGED <<files, tree, run, loading, sessionId, requests>>

HeapToggleFile(k) ==
    /\ hasFiles /\ heap.calls < MaxCalls
    /\ k \in LeafKeys(tree)
    /\ LET r == toggleFileH(tree, heap.cells, heap.selected, tree.node[k].path)
       IN /\ selected' = r.cells[r.ref]
          /\ heap' = HeapAfter(r.cells, r.ref, heap.expanded)
    /\ last' = [op |-> "toggleFile", node |-> k, empty |-> (selected = <<>>), after |-> "-"]
    /\ UNCHANGED <<files, tree, expanded, run, loading, sessionId, requests>>

HeapToggleFolder(k) ==
    /\ hasFiles /\ heap.calls < MaxCalls
    /\ k \in FolderKeys(tree)
    /\ LET r == toggleFolderH(tree, heap.cells, heap.selected, k)
       IN /\ selected' = r.cells[r.ref]
          /\ heap' = HeapAfter(r.cells, r.ref, heap.expanded)
    /\ last' = [op |-> "toggleFolder", node |-> k, empty |-> (selected = <<>>), after |-> "-"]
    /\ UNCHANGED <<files, tree, expanded, run, loading, sessionId, requests>>

\* onClick of a folder's arrow: toggleExpand(node.path)
HeapToggleExpand(k) ==
    /\ hasFiles /\ heap.calls < MaxCalls
    /\ k \in FolderKeys(tree)
    /\ LET r == toggleExpandH(heap.cells, heap.expanded, tree.node[k].path)
       IN /\ expanded' = r.cells[r.ref]
          /\ heap' = HeapAfter(r.cells, heap.selected, r.ref)
    /\ last' = [op |-> "toggleExpand", node |-> k, empty |-> (selected = <<>>), after |-> "-"]
    /\ UNCHANGED <<files, tree, selected, run, loading, sessionId, requests>>

\* handleSelectAll: setSelected(files), the array `files` itself
HeapSelectAll ==
    /\ hasFiles /\ heap.calls < MaxCalls
    /\ selected' = heap.cells[heap.files]
    /\ heap' = HeapAfter(heap.cells, heap.files, heap.expanded)
    /\ last' = [op |-> "selectAll", node |-> NoNode, empty |-> (selected = <<>>), after |-> "-"]
    /\ UNCHANGED <<files, tree, expanded, run, loading, sessionId, requests>>

\* handleDeselectAll: setSelected([])
HeapDeselectAll ==
    /\ hasFiles /\ heap.calls < MaxCalls
    /\ LET a == Alloc(heap.cells, <<>>)
       IN /\ selected' = a.cells[a.ref]
          /\ heap' = HeapAfter(a.cells, a.ref, heap.expanded)
    /\ last' = [op |-> "deselectAll", node |-> NoNode, empty |-> (selected = <<>>), after |-> last.op]
    /\ UNCHANGED <<files, tree, expanded, run, loading, sessionId, requests>>

HeapUploadStep == ~hasFiles /\ \E listing \in HeapListings : HeapUpload(listing)
HeapToggleLeafStep == \E k \in NodeKeys(tree) : HeapToggleFile(k)
HeapToggleFolderStep == \E k \in NodeKeys(tree) : HeapToggleFolder(k)
HeapToggleExpandStep == \E k \in NodeKeys(tree) : HeapToggleExpand(k)

HeapNext ==
    \/ HeapUploadStep
    \/ HeapToggleLeafStep
    \/ HeapToggleFolderStep
    \/ HeapToggleExpandStep
    \/ HeapSelectAll
    \/ HeapDeselectAll

HeapSpec == Init /\ [][HeapNext]_vars

\* ------------------------------------------------------ the count shown
\* FileSelectionPanel: "selectedCount of totalFiles files selected"
selectedCount(fs, sel) ==
    Len(SelectSeq(sel, LAMBDA x :
            \E i \in DOMAIN fs : fs[i] = x /\ ~(fs[i] # <<>> /\ fs[i][Len(fs[i])] = "/")))

totalFiles(fs) ==
    Len(SelectSeq(fs, LAMBDA f : ~(f # <<>> /\ f[Len(f)] = "/")))

\* ------------------------------------------------- the app with its fetches
\* handleUpload and handleGenerate are async: the part before `await fetch`
\* is one step, the part that follows the response (with catch and finally)
\* another, and any handler may run in between.
MaxRequests == 3

\* String.prototype.toLowerCase, on the letters the messages use
LowerOf == ("S" :> "s") @@ ("F" :> "f") @@ ("R" :> "r")
\* (variant: the characters are left as they are)
ToLowerCaseNot(s) == s

ToLowerCase(s) == [i \in DOMAIN s |-> IF s[i] \in DOMAIN LowerOf THEN LowerOf[s[i]] ELSE s[i]]

\* String.prototype.includes
IncludesString(s, sub) ==
    \E i \in 0..(Len(s) - Len(sub)) : SubSeq(s, i + 1, i + Len(sub)) = sub

\* message.toLowerCase().includes("session")
IsSessionError(message) == IncludesString(ToLowerCase(message), <<"s", "e", "s", "s", "i", "o", "n">>)

\* Messages of a failed generate-md: what readError finds in the response,
\* or the message of the error fetch throws.
ErrorMessages ==
    {<<"S", "e", "s", "s", "i", "o", "n", " ", "e", "x", "p", "i", "r", "e", "d">>,
     <<"i", "n", "v", "a", "l", "i", "d", " ", "s", "e", "s", "s", "i", "o", "n", " ", "i", "d">>,
     <<"F", "a", "i", "l", "e", "d", " ", "t", "o", " ", "f", "e", "t", "c", "h">>,
     <<"R", "e", "q", "u", "e", "s", "t", " ", "f", "a", "i", "l", "e", "d", " ", "w", "i", "t", "h", " ", "s", "t", "a", "t", "u", "s", " ", "5", "0", "0">>}

\* The listings list-files answers with here: at most MaxSegments - 3 names,
\* at most one path spelt as a directory entry or with backslashes.
AppListings ==
    {[i \in DOMAIN cs |-> Spell(cs[i], IF i = j THEN kind ELSE "posix")]
        : cs \in ChainSeqs(MaxSegments - 3), j \in 0..MaxSegments, kind \in {"dir", "win"}}

Pending(kind) == {i \in DOMAIN requests : requests[i].kind = kind /\ ~requests[i].done}

NoRun == [active |-> FALSE, toggled |-> {}]

\* What FileTree shows for a value of `files`: unmounted when there is none
TreeOf(fs) == IF fs = <<>> THEN EmptyTree ELSE build(fs)

\* handleUpload up to `await fetch`: setLoading(true) and the request
BeginUpload(how) ==
    /\ Len(requests) < MaxRequests
    /\ loading' = TRUE
    /\ requests' = Append(requests, [kind |-> "list", done |-> FALSE, session |-> NoSession,
                                     leaf |-> FALSE])
    /\ last' = [op |-> how, node |-> NoNode, empty |-> (selected = <<>>), after |-> "-"]
    /\ UNCHANGED <<files, selected, tree, expanded, run, heap, sessionId>>

\* UploadZone is rendered while !hasFiles.  A click opens the file dialog
\* only while !loading, and the input is disabled while loading.
ClickUpload == ~hasFiles /\ ~loading /\ BeginUpload("click")

\* handleDrop puts the file into the input and dispatches "change" itself,
\* whatever `loading` is.
DropUpload == ~hasFiles /\ BeginUpload("drop")

\* handleUpload after a response with res.ok
UploadOk(i, listing, withSession) ==
    LET all   == FilterBoolean(listing)
        built == TreeOf(all)
    IN /\ files' = all
       /\ selected' = all
       /\ sessionId' = IF withSession THEN i ELSE NoSession
       /\ loading' = FALSE
       /\ tree' = built
       /\ expanded' = CollectFolders(built, built.roots, 1)
       /\ requests' = [requests EXCEPT ![i].done = TRUE]
       /\ last' = [op |-> "upload", node |-> NoNode, empty |-> (selected = <<>>), after |-> "-"]
       /\ run' = NoRun
       /\ UNCHANGED heap

\* (variant: the catch resets the session id only)
UploadFailKeepFiles(i) ==
    /\ sessionId' = NoSession
    /\ loading' = FALSE
    /\ requests' = [requests EXCEPT ![i].done = TRUE]
    /\ last' = [op |-> "uploadFailed", node |-> NoNode, empty |-> (selected = <<>>), after |-> "-",
                hadFiles |-> hasFiles]
    /\ UNCHANGED <<files, selected, tree, expanded, run, heap>>

\* handleUpload after anything thrown inside the try: a failed fetch, a
\* response without res.ok, a body that is not the JSON expected
UploadFail(i) ==
    /\ files' = <<>>
    /\ selected' = <<>>
    /\ sessionId' = NoSession
    /\ loading' = FALSE
    /\ tree' = EmptyTree
    /\ expanded' = {}
    /\ requests' = [requests EXCEPT ![i].done = TRUE]
    /\ last' = [op |-> "uploadFailed", node |-> NoNode, empty |-> (selected = <<>>), after |-> "-",
                hadFiles |-> hasFiles]
    /\ run' = NoRun
    /\ UNCHANGED heap

\* The Generate button (disabled while loading or selected.length === 0) and
\* handleGenerate up to `await fetch`.  Without a session id the handler
\* shows a toast and changes nothing.
Generate ==
    /\ hasFiles /\ ~loading /\ selected # <<>>
    /\ sessionId # NoSession
    /\ Len(requests) < MaxRequests
    /\ loading' = TRUE
    /\ requests' = Append(requests,
                          [kind |-> "generate", done |-> FALSE, session |-> sessionId,
                           leaf |-> \E l \in LeafKeys(tree) : Includes(selected, tree.node[l].path)])
    /\ last' = [op |-> "generate", node |-> NoNode, empty |-> (selected = <<>>), after |-> "-"]
    /\ UNCHANGED <<files, selected, tree, expanded, run, heap, sessionId>>

\* handleGenerate after a response with res.ok: the download, then finally
GenerateOk(i) ==
    /\ loading' = FALSE
    /\ requests' = [requests EXCEPT ![i].done = TRUE]
    /\ last' = [op |-> "generated", node |-> NoNode, empty |-> (selected = <<>>), after |-> "-"]
    /\ UNCHANGED <<files, selected, tree, expanded, run, heap, sessionId>>

\* handleGenerate, catch and finally
GenerateFail(i, message) ==
    /\ IF IsSessionError(message)
       THEN /\ sessionId' = NoSession
            /\ files' = <<>>
            /\ selected' = <<>>
            /\ tree' = EmptyTree
            /\ expanded' = {}
            /\ run' = NoRun
       ELSE UNCHANGED <<sessionId, files, selected, tree, expanded, run>>
    /\ loading' = FALSE
    /\ requests' = [requests EXCEPT ![i].done = TRUE]
    /\ last' = [op |-> "generateFailed", node |-> NoNode, empty |-> (selected = <<>>),
                after |-> "-", message |-> message]
    /\ UNCHANGED heap

UploadResponds ==
    \E i \in Pending("list") :
        \/ \E listing \in AppListings, withSession \in BOOLEAN : UploadOk(i, listing, withSession)
        \/ UploadFail(i)

GenerateResponds ==
    \E i \in Pending("generate") :
        \/ GenerateOk(i)
        \/ \E message \in ErrorMessages : GenerateFail(i, message)

AppNext ==
    \/ ClickUpload
    \/ DropUpload
    \/ UploadResponds
    \/ Generate
    \/ GenerateResponds
    \/ ToggleLeafStep
    \/ ToggleFolderStep
    \/ HandleSelectAll
    \/ HandleDeselectAll
    \/ HandleBack

AppSpec == Init /\ [][AppNext]_vars

\* ===================================================================
\* Properties
\* ===================================================================
IsPrefix(k, l) == Len(k) <= Len(l) /\ SubSeq(l, 1, Len(k)) = k
StrictPrefix(k, l) == Len(k) < Len(l) /\ SubSeq(l, 1, Len(k)) = k

\* Leaves of the subtree of k, read off the shape of the tree
LeavesUnder(t, k) == {l \in LeafKeys(t) : IsPrefix(k, l)}
LeafPathsUnder(t, k) == {t.node[l].path : l \in LeavesUnder(t, k)}
LeafPaths(t) == {t.node[l].path : l \in LeafKeys(t)}
FolderPaths(t) == {t.node[k].path : k \in FolderKeys(t)}
NodePaths(t) == {t.node[k].path : k \in NodeKeys(t)}

\* folder.path is stored iff every leaf below the folder is stored
Consistent(t, sel) ==
    \A k \in FolderKeys(t) :
        (t.node[k].path \in SeqToSet(sel)) <=> (LeafPathsUnder(t, k) \subseteq SeqToSet(sel))

PartlySelected(t, sel, k) ==
    /\ LeafPathsUnder(t, k) \cap SeqToSet(sel) # {}
    /\ ~(LeafPathsUnder(t, k) \subseteq SeqToSet(sel))

\* C1: after toggleFile, toggleFolder, selectAll or deselectAll the stored
\* selection is consistent: a folder path is stored iff all leaves of the
\* folder's subtree are stored.
C1_StoredSelectionConsistent ==
    last.op \in {"toggleFile", "toggleFolder", "selectAll", "deselectAll"}
        => Consistent(tree, selected)

\* C2: for every folder node, isNodeSelected (areAllChildrenSelected) is true
\* iff every leaf of the folder's subtree has its path in the selection.
C2_IsNodeSelectedIffAllLeaves ==
    \A k \in FolderKeys(tree) :
        areAllChildrenSelected(tree, selected, k)
            <=> (LeafPathsUnder(tree, k) \subseteq SeqToSet(selected))

C2_Witness ==
    /\ last.op \in {"toggleFile", "toggleFolder"}
    /\ \E k \in FolderKeys(tree) :
          /\ PartlySelected(tree, selected, k)
          /\ ~areAllChildrenSelected(tree, selected, k)
    /\ \E k \in FolderKeys(tree) : areAllChildrenSelected(tree, selected, k)

\* C3: after toggleFile, every folder of the tree has its path in the
\* returned array iff all its descendant leaves are in the returned array.
C3_ToggleLeafRederivesFolders ==
    last.op = "toggleFile" => Consistent(tree, selected)

\* C4 (as claimed): toggling any folder twice gives back the selection, as a
\* set, whatever the selection was.
C4_DoubleToggleAnySelection ==
    \A f \in FolderKeys(tree) :
        SeqToSet(toggleFolder(tree, toggleFolder(tree, selected, f), f)) = SeqToSet(selected)

\* C4 (amended): toggling a folder twice gives back the selection, as a set,
\* when the folder's leaves were all selected or all unselected.
C4_DoubleToggleUniformFolder ==
    \A f \in FolderKeys(tree) :
        ~PartlySelected(tree, selected, f)
            => SeqToSet(toggleFolder(tree, toggleFolder(tree, selected, f), f))
                  = SeqToSet(selected)

C4_Witness ==
    /\ last.op = "toggleFolder"
    /\ LeafPathsUnder(tree, last.node) \subseteq SeqToSet(selected)
    /\ Cardinality(LeavesUnder(tree, last.node)) >= 2
    /\ SeqToSet(selected) # LeafPathsUnder(tree, last.node)

\* C5: toggleFolder removes every descendant leaf path when the folder is
\* fully selected and adds every descendant leaf path otherwise; from an
\* empty selection the result is exactly the folder's leaf paths, the folder
\* reports selected and an ancestor with an unselected leaf does not.
C5_ToggleFolderCascades ==
    /\ \A f \in FolderKeys(tree) :
          LET r == SeqToSet(toggleFolder(tree, selected, f))
              D == LeafPathsUnder(tree, f)
          IN IF D \subseteq SeqToSet(selected) THEN D \cap r = {} ELSE D \subseteq r
    /\ (last.op = "toggleFolder" /\ last.empty) =>
          /\ SeqToSet(selected) = LeafPathsUnder(tree, last.node)
          /\ areAllChildrenSelected(tree, selected, last.node)
          /\ \A g \in FolderKeys(tree) :
                (StrictPrefix(g, last.node)
                   /\ ~(LeafPathsUnder(tree, g) \subseteq SeqToSet(selected)))
                => ~areAllChildrenSelected(tree, selected, g)

C5_Witness ==
    /\ last.op = "toggleFolder" /\ last.empty
    /\ SeqToSet(selected) = LeafPathsUnder(tree, last.node)
    /\ \E g \in FolderKeys(tree) :
          /\ StrictPrefix(g, last.node)
          /\ ~areAllChildrenSelected(tree, selected, g)

\* C6: from an empty selection, once every leaf below a folder has been
\* toggled exactly once the folder reports selected, and the selection
\* reached is determined by the set of leaves toggled, not by their order.
C6_LeafTogglesSelectFolder ==
    run.active =>
        /\ \A k \in FolderKeys(tree) :
              LeavesUnder(tree, k) \subseteq run.toggled
                  => areAllChildrenSelected(tree, selected, k)
        /\ SeqToSet(selected) =
              {tree.node[l].path : l \in run.toggled}
              \cup {tree.node[k].path : k \in {g \in FolderKeys(tree) :
                                                  LeavesUnder(tree, g) \subseteq run.toggled}}

C6_Witness ==
    /\ run.active
    /\ last.op = "toggleFile"
    /\ run.toggled = LeafKeys(tree)
    /\ Cardinality(run.toggled) >= 2
    /\ \E k \in FolderKeys(tree) : Len(k) >= 2
    /\ \A r \in SeqToSet(tree.roots) : areAllChildrenSelected(tree, selected, r)

\* C7: toggleFile with a path that is no node of the tree changes the
\* membership of no path other than the re-derived folder paths; the absent
\* path itself is not added.
C7_AbsentPathIsNoOp ==
    (last.op = "toggleLeaf" /\ last.path \notin NodePaths(tree)) =>
        \A q \in (SeqToSet(last.prev) \cup SeqToSet(selected) \cup {last.path})
                  \ FolderPaths(tree) :
            (q \in SeqToSet(selected)) <=> (q \in SeqToSet(last.prev))

\* C8: selectAll stores exactly the leaf paths of the tree, deselectAll
\* stores nothing.
C8_SelectAllStoresLeafPaths ==
    /\ last.op = "selectAll" => SeqToSet(selected) = LeafPaths(tree)
    /\ last.op = "deselectAll" => selected = <<>>

\* C9: after deselectAll (in particular after selectAll then deselectAll)
\* the selection is empty and no node, leaf or folder, reports selected.
C9_DeselectAllClearsEveryNode ==
    last.op = "deselectAll" =>
        /\ selected = <<>>
        /\ \A k \in NodeKeys(tree) : ~areAllChildrenSelected(tree, selected, k)

C9_Witness ==
    /\ last.op = "deselectAll"
    /\ last.after = "selectAll"
    /\ FolderKeys(tree) # {}
    /\ Cardinality(LeafKeys(tree)) >= 2

\* C10: a node of the tree is a folder iff some listed path extends strictly
\* past it, whatever the order of the listing, and every prefix of a listed
\* path is a node.
C10_FolderIffPathExtendsPast ==
    hasFiles =>
        /\ \A i \in DOMAIN files : \A d \in 1..Len(Parts(files[i])) :
              SubSeq(Parts(files[i]), 1, d) \in NodeKeys(tree)
        /\ \A k \in NodeKeys(tree) :
              IsFolder(tree, k) <=> \E i \in DOMAIN files : StrictPrefix(k, Parts(files[i]))
\* ------------------------------------------------------------ the builder
Built == last.op = "build" /\ ~last.threw

\* Chains of names the paths of a `files` prop stand for, with their prefixes
InputKeys(paths) ==
    UNION {{SubSeq(Parts(paths[n]), 1, d) : d \in 1..Len(Parts(paths[n]))}
              : n \in {m \in DOMAIN paths : ~IsBlank(paths[m])}}

\* C11: every non-empty prefix of every non-blank path is the path of exactly
\* one node of the tree, and the tree has no other node.
C11_BuildLosesNoPath ==
    Built =>
        /\ \A key \in InputKeys(files) :
              Cardinality({k \in NodeKeys(tree) : tree.node[k].path = JoinWith(key, "/")}) = 1
        /\ \A k \in NodeKeys(tree) :
              \E key \in InputKeys(files) : tree.node[k].path = JoinWith(key, "/")

\* Position in the input of the first path that runs through node k
FirstIdx(paths, k) ==
    CHOOSE n \in DOMAIN paths :
        /\ IsPrefix(k, Parts(paths[n]))
        /\ \A m \in 1..(n-1) : ~IsPrefix(k, Parts(paths[m]))

InInputOrder(paths, ks) ==
    \A i, j \in DOMAIN ks : i < j => FirstIdx(paths, ks[i]) < FirstIdx(paths, ks[j])

\* C12: the top-level nodes and the children of every folder stand in the
\* order in which their paths first occur in the input.
C12_SiblingsInInputOrder ==
    Built =>
        /\ InInputOrder(files, tree.roots)
        /\ \A k \in FolderKeys(tree) : InInputOrder(files, tree.node[k].children)

\* C13: build returns a tree for every input and never throws.
C13_BuildNeverThrows ==
    last.op = "build" => ~last.threw
NoRepeat(ks) == \A i, j \in DOMAIN ks : ks[i] = ks[j] => i = j

\* C14: no two nodes of a built tree share a path: no level lists a node
\* twice and different nodes have different paths.
C14_NoTwoNodesShareAPath ==
    Built =>
        /\ NoRepeat(tree.roots)
        /\ \A k \in FolderKeys(tree) : NoRepeat(tree.node[k].children)
        /\ \A k1, k2 \in NodeKeys(tree) :
              tree.node[k1].path = tree.node[k2].path => k1 = k2

EndsWithSlash(f) == f # <<>> /\ f[Len(f)] = "/"

\* a built tree whose input names a folder both by a path beneath it and,
\* later, by its own path with a trailing separator
C14_Witness ==
    /\ Built
    /\ \E m, n \in DOMAIN files :
          /\ m < n
          /\ EndsWithSlash(files[n])
          /\ StrictPrefix(Parts(files[n]), Parts(files[m]))
          /\ Parts(files[n]) \in FolderKeys(tree)

\* C15: a path given with a trailing "/" yields a folder node, never a leaf.
C15_TrailingSlashIsFolder ==
    Built =>
        \A n \in DOMAIN files :
            (EndsWithSlash(files[n]) /\ Parts(files[n]) \in NodeKeys(tree))
                => IsFolder(tree, Parts(files[n]))

\* C17: the path of a top-level node is its name, and the path of a child is
\* the path of its parent, "/", and the name of the child.
C17_ChildPathExtendsParent ==
    Built =>
        /\ \A i \in DOMAIN tree.roots :
              tree.node[tree.roots[i]].path = tree.node[tree.roots[i]].name
        /\ \A k \in FolderKeys(tree) : \A i \in DOMAIN tree.node[k].children :
              LET c == tree.node[k].children[i]
              IN tree.node[c].path = tree.node[k].path \o <<"/">> \o tree.node[c].name

\* a built tree with a node three levels deep
C17_Witness ==
    /\ Built
    /\ \E k \in FolderKeys(tree) : \E i \in DOMAIN tree.node[k].children :
          Len(tree.node[k].children[i]) = 3
\* The path respelt with its non-empty segments only, "" if it has none
Normalized(f) == IF Parts(f) = <<>> THEN <<>> ELSE JoinWith(Parts(f), "/")

NonBlankEntries(paths) ==
    SelectSeq(paths, LAMBDA f : \E i \in DOMAIN f : f[i] \notin Whitespace)

\* C16: the built tree is the tree of the input without its blank entries,
\* of the input with every "\" replaced by "/", of the input respelt without
\* empty segments, and of the input without repeated entries; no node has an
\* empty name, and an input without non-blank entries gives no node.
C16_BuildNormalizes ==
    Built =>
        /\ tree = buildTree(NonBlankEntries(files))
        /\ tree = build([i \in DOMAIN files |-> ReplaceBackslash(files[i])])
        /\ tree = build([i \in DOMAIN files |-> Normalized(files[i])])
        /\ tree = build(Dedupe(files))
        /\ \A k \in NodeKeys(tree) : tree.node[k].name # <<>>
        /\ NonBlankEntries(files) = <<>> => tree.roots = <<>>

\* a built tree whose input holds a blank entry, a repeated entry and a path
\* of two segments spelt with a backslash
C16_Witness ==
    /\ Built
    /\ \E n \in DOMAIN files : IsBlank(files[n])
    /\ \E m, n \in DOMAIN files : m < n /\ files[m] = files[n] /\ ~IsBlank(files[m])
    /\ \E n \in DOMAIN files : Includes(files[n], "\\") /\ Len(Parts(files[n])) = 2
    /\ tree.roots # <<>>
\* ------------------------------------------------------------ frame effects
\* C18: toggleFolder of a folder neither adds nor removes the folder's own
\* path, and changes the membership of no path other than the paths of the
\* leaves below that folder.
C18_ToggleFolderFrame ==
    \A f \in FolderKeys(tree) :
        LET r == SeqToSet(toggleFolder(tree, selected, f))
            s == SeqToSet(selected)
            D == LeafPathsUnder(tree, f)
        IN /\ (tree.node[f].path \in r) <=> (tree.node[f].path \in s)
           /\ r \ D = s \ D

\* a folder was unchecked while its own path and the path of a leaf outside
\* it were stored: both are still stored, the leaves below it are not
C18_Witness ==
    /\ last.op = "toggleFolder"
    /\ tree.node[last.node].path \in SeqToSet(selected)
    /\ LeafPathsUnder(tree, last.node) \cap SeqToSet(selected) = {}
    /\ (LeafPaths(tree) \ LeafPathsUnder(tree, last.node)) \cap SeqToSet(selected) # {}
\* C19: toggleFile of the path of a leaf negates the membership of that path
\* and changes the membership of no other path except paths of folders.
C19_ToggleLeafFlipsOneLeaf ==
    \A l \in LeafKeys(tree) :
        LET p == tree.node[l].path
            r == SeqToSet(toggleFile(tree, selected, p))
            s == SeqToSet(selected)
        IN /\ (p \in r) <=> (p \notin s)
           /\ r \ (FolderPaths(tree) \cup {p}) = s \ (FolderPaths(tree) \cup {p})

\* a leaf stored twice was unchecked: it is gone, another leaf is still
\* stored and a folder above the toggled leaf is not
C19_Witness ==
    /\ last.op = "toggleFile"
    /\ tree.node[last.node].path \notin SeqToSet(selected)
    /\ \E i, j \in DOMAIN files : i < j /\ files[i] = files[j]
                                   /\ files[i] = tree.node[last.node].path
    /\ (LeafPaths(tree) \ {tree.node[last.node].path}) \cap SeqToSet(selected) # {}
    /\ \E g \in FolderKeys(tree) :
          StrictPrefix(g, last.node) /\ tree.node[g].path \notin SeqToSet(selected)
\* C20: toggleFile, toggleFolder and toggleExpand hand a new array or Set to
\* the setter and change no array or Set that existed when they were called:
\* the selection and the expansion set held before the call have afterwards
\* the contents they had before.
C20_TogglesMutateNothingHeld ==
    /\ selected = heap.cells[heap.selected]
    /\ expanded = heap.cells[heap.expanded]
    /\ last.op \in {"toggleFile", "toggleFolder", "toggleExpand"} =>
          /\ \A r \in DOMAIN heap.before : heap.cells[r] = heap.before[r]
          /\ heap.cells[heap.prior.selected] = heap.before[heap.prior.selected]
          /\ heap.cells[heap.prior.expanded] = heap.before[heap.prior.expanded]
          /\ last.op \in {"toggleFile", "toggleFolder"} =>
                heap.selected \notin DOMAIN heap.before
          /\ last.op = "toggleExpand" => heap.expanded \notin DOMAIN heap.before

\* a leaf was unchecked while the selection held was the array `files`
\* itself: the new selection is another array, short of the leaf and of a
\* folder path spliced out of it, and `files` is as it was
C20_Witness ==
    /\ last.op = "toggleFile"
    /\ heap.prior.selected = heap.files
    /\ heap.selected # heap.files
    /\ files = heap.cells[heap.files]
    /\ tree.node[last.node].path \in SeqToSet(files) \ SeqToSet(selected)
    /\ \E g \in FolderKeys(tree) :
          /\ StrictPrefix(g, last.node)
          /\ tree.node[g].path \in SeqToSet(files) \ SeqToSet(selected)
\* ------------------------------------------------------------- expansion
\* C21: toggleFile, toggleFolder, select-all and deselect-all leave the
\* expansion set as it was, and toggleExpand leaves the selection as it was.
C21_SelectionExpansionIndependent ==
    /\ last.op \in {"toggleFile", "toggleFolder", "selectAll", "deselectAll"} =>
          /\ heap.expanded = heap.prior.expanded
          /\ expanded = heap.before[heap.prior.expanded]
    /\ last.op = "toggleExpand" =>
          /\ heap.selected = heap.prior.selected
          /\ selected = heap.before[heap.prior.selected]

\* a leaf was unchecked while a folder was collapsed: the folder is still the
\* only one collapsed
C21_Witness ==
    /\ last.op = "toggleFile"
    /\ tree.node[last.node].path \notin SeqToSet(selected)
    /\ Cardinality(FolderPaths(tree) \ expanded) = 1
    /\ Cardinality(FolderPaths(tree)) = 2
\* C22: right after a tree was built from a new listing, the expansion set is
\* the set of the paths of the folders of that tree: every folder, no leaf,
\* nothing else.
C22_RebuildExpandsAllFolders ==
    last.op = "upload" =>
        /\ expanded = FolderPaths(tree)
        /\ expanded \cap LeafPaths(tree) = {}
        /\ expanded \subseteq NodePaths(tree)

\* a tree with a folder inside a folder and a leaf at the top was built
C22_Witness ==
    /\ last.op = "upload"
    /\ \E f, g \in FolderKeys(tree) : StrictPrefix(f, g) /\ tree.node[g].path \in expanded
    /\ \E l \in LeafKeys(tree) : Len(l) = 1
\* C23: toggleExpand of a path changes the membership of that path and of no
\* other path in the expansion set, and applied twice to the same path gives
\* the expansion set it started from.
C23_ToggleExpandOnePathOnly ==
    \A k \in NodeKeys(tree) :
        LET p  == tree.node[k].path
            r  == toggleExpandH(heap.cells, heap.expanded, p)
            rr == toggleExpandH(r.cells, r.ref, p)
        IN /\ (p \in r.cells[r.ref]) <=> (p \notin expanded)
           /\ r.cells[r.ref] \ {p} = expanded \ {p}
           /\ rr.cells[rr.ref] = expanded

\* a folder was collapsed and the folder inside it is still recorded expanded
C23_Witness ==
    /\ last.op = "toggleExpand"
    /\ tree.node[last.node].path \notin expanded
    /\ \E g \in FolderKeys(tree) :
          StrictPrefix(last.node, g) /\ tree.node[g].path \in expanded
\* C27: updateParentStates applied to its own result, on the same tree,
\* returns the same set of paths, whatever selection it started from.
C27_UpdateParentStatesIdempotent ==
    LET u == updateParentStates(tree, selected)
    IN SeqToSet(updateParentStates(tree, u)) = SeqToSet(u)

\* ----------------------------------------------------------------- the app
\* C25: right after a successful upload every node of the tree built from the
\* listing is shown checked.
C25_UploadSelectsEveryNode ==
    last.op = "upload" =>
        \A k \in NodeKeys(tree) : areAllChildrenSelected(tree, selected, k)
\* disabled={loading || selected.length === 0} of the Generate button
GenerateDisabled == loading \/ selected = <<>>

LeafSelected == \E l \in LeafKeys(tree) : tree.node[l].path \in SeqToSet(selected)

\* C26: while no leaf of the current tree is selected the Generate button is
\* disabled, and every generate-md request was sent with a leaf selected and
\* a session id.
C26_GenerateNeedsASelectedLeaf ==
    /\ (hasFiles /\ ~LeafSelected) => GenerateDisabled
    /\ \A i \in DOMAIN requests :
          requests[i].kind = "generate" =>
              requests[i].leaf /\ requests[i].session # NoSession
InFlight == {i \in DOMAIN requests : ~requests[i].done}

\* C28: at most one request is in flight at any time, and loading is true
\* whenever one is.
C28_OneRequestInFlight ==
    /\ Cardinality(InFlight) <= 1
    /\ InFlight # {} => loading

Completes(i) == ~requests[i].done /\ requests'[i].done

\* C29: the completion of a generate-md request leaves files, selected and
\* sessionId alone when the session id held is that of an upload completed
\* after the request was sent.
C29_GenerateCompletionKeepsNewerSession ==
    [][\A i \in Pending("generate") :
          (Completes(i) /\ sessionId # NoSession /\ sessionId # requests[i].session)
              => (files' = files /\ selected' = selected /\ sessionId' = sessionId)]_vars

\* The messages that contain "session" in some spelling
MentionsSession(message) ==
    message \in {<<"S", "e", "s", "s", "i", "o", "n", " ", "e", "x", "p", "i", "r", "e", "d">>,
                 <<"i", "n", "v", "a", "l", "i", "d", " ", "s", "e", "s", "s", "i", "o", "n", " ", "i", "d">>}

\* C30: a failed generate-md whose message does not mention "session" leaves
\* files, selected and sessionId as they were; one whose message mentions it
\* in any case clears all three; loading is false afterwards either way.
C30_GenerateFailureReset ==
    [][\A i \in Pending("generate") :
          (Completes(i) /\ last'.op = "generateFailed") =>
              /\ loading' = FALSE
              /\ IF MentionsSession(last'.message)
                 THEN files' = <<>> /\ selected' = <<>> /\ sessionId' = NoSession
                 ELSE files' = files /\ selected' = selected /\ sessionId' = sessionId]_vars

\* a generate-md failed with "Session expired" and the state was cleared
C30_Witness ==
    /\ last.op = "generateFailed"
    /\ last.message = <<"S", "e", "s", "s", "i", "o", "n", " ", "e", "x", "p", "i", "r", "e", "d">>
    /\ files = <<>> /\ selected = <<>> /\ sessionId = NoSession /\ ~loading
\* C31: after a failed list-files the app is in the cleared state: files and
\* selected empty, no session id, not loading, whatever was held before.
C31_FailedUploadClears ==
    last.op = "uploadFailed" =>
        /\ files = <<>>
        /\ selected = <<>>
        /\ sessionId = NoSession
        /\ ~loading
        /\ tree = EmptyTree

\* a list-files failed while the files of another upload were shown
C31_Witness ==
    /\ last.op = "uploadFailed"
    /\ last.hadFiles
    /\ files = <<>> /\ selected = <<>> /\ sessionId = NoSession /\ ~loading

\* C32: the count shown is accurate: selectedCount is the number of leaves of
\* the tree whose path is selected, totalFiles the number of leaves, and
\* selectedCount is at most totalFiles.
C32_ShownCountIsAccurate ==
    hasFiles =>
        /\ selectedCount(files, selected)
              = Cardinality({l \in LeafKeys(tree) : tree.node[l].path \in SeqToSet(selected)})
        /\ totalFiles(files) = Cardinality(LeafKeys(tree))
        /\ selectedCount(files, selected) <= totalFiles(files)
====
